---- MODULE Spec2Model ----
(***************************************************************************)
(* Model of src/main.py of qupath-extractor: parse_qpdata (the segment     *)
(* locator around the javaobj decoder), extract_annotations /              *)
(* extract_annotation_info (the graph walker) and get_qupath_info (the     *)
(* per-image batch loop).                                                  *)
(*                                                                         *)
(* Byte strings are sequences of byte values 0..255.  Offsets are 0-based  *)
(* as in Python: data[i] is data[i + 1] here.  An optional value is None   *)
(* (the empty tuple) or Some(v) (a one-element tuple).                     *)
(***************************************************************************)
EXTENDS Integers, Sequences, FiniteSets, TLC

VARIABLES
    \* parse_qpdata called on one file
    file_exists, data, ppc, result, exc, locals,
    \* get_qupath_info over one project
    verbose, classes, images, idx, image_infos, bpc, call_log,
    \* extract_annotations over one decoded object graph
    heap, qpdata_obj, wpc, todo, annotations, caught_exc

parse_vars == <<file_exists, data, ppc, result, exc, locals>>
batch_vars == <<verbose, classes, images, idx, image_infos, bpc, call_log>>
walk_vars  == <<heap, qpdata_obj, wpc, todo, annotations, caught_exc>>
vars == <<parse_vars, batch_vars, walk_vars>>

None == <<>>
Some(v) == <<v>>

Min(S) == CHOOSE x \in S : \A y \in S : x <= y

(***************************************************************************)
(* Bounds of the model.                                                    *)
(***************************************************************************)
MaxChunks == 4     \* a file buffer is at most this many chunks of Chunks
MaxImages == 2     \* images in a project manifest
MaxAttrs  == 2     \* attributes of the root object of a decoded graph
MaxNodes  == 2     \* objects of a decoded graph

(***************************************************************************)
(* Byte literals and numbers of parse_qpdata.                              *)
(***************************************************************************)
\* b'Data file version'
version_prefix == <<68, 97, 116, 97, 32, 102, 105, 108, 101, 32, 118, 101, 114, 115, 105, 111, 110>>
\* b'\x74'
version_sentinel == <<116>>
\* the 19 of data.find(b'\x74', 19) and data[19:version_end]
version_offset == 19
\* b'{"dataVersion"'
json_pattern == <<123, 34, 100, 97, 116, 97, 86, 101, 114, 115, 105, 111, 110, 34>>
\* b'}sr '
json_end_marker == <<125, 115, 114, 32>>
\* java_start = json_end + 2
java_skip == 2
\* json_str[:500]
metadata_raw_len == 500
\* [\x20-\x7e]{10,} and text_matches[:30]
raw_string_min == 10
raw_string_max == 30

(***************************************************************************)
(* bytes.startswith, bytes.find, slicing, decode.                          *)
(***************************************************************************)
StartsWith(s, p) == Len(s) >= Len(p) /\ SubSeq(s, 1, Len(p)) = p

\* s.find(sub, start): the lowest offset >= start at which sub occurs, or -1
Find(s, sub, start) ==
    LET hits == {i \in start .. (Len(s) - Len(sub)) : SubSeq(s, i + 1, i + Len(sub)) = sub}
    IN  IF hits = {} THEN -1 ELSE Min(hits)

\* s[a:b] for 0 <= a
Slice(s, a, b) == SubSeq(s, a + 1, IF b > Len(s) THEN Len(s) ELSE b)

\* bytes.decode('utf-8', errors='ignore') on buffers whose bytes are ASCII or
\* 0xFF: an ASCII byte is its own code point, 0xFF is never valid UTF-8 and
\* is dropped.
IsAscii(b) == b < 128
decode_utf8_ignore(bs) == SelectSeq(bs, IsAscii)

\* re.findall(b'[\x20-\x7e]{10,}', data): the maximal runs of printable
\* bytes that are at least raw_string_min long, in order
IsPrintable(b) == b >= 32 /\ b <= 126
RECURSIVE printable_runs(_, _, _, _)
printable_runs(s, i, cur, acc) ==
    LET flush == IF Len(cur) >= raw_string_min THEN Append(acc, cur) ELSE acc
    IN  IF i > Len(s) THEN flush
        ELSE IF IsPrintable(s[i]) THEN printable_runs(s, i + 1, Append(cur, s[i]), acc)
        ELSE printable_runs(s, i + 1, <<>>, flush)
raw_strings(d) ==
    LET text_matches == printable_runs(d, 1, <<>>, <<>>)
    IN  SubSeq(text_matches, 1, IF Len(text_matches) > raw_string_max
                                 THEN raw_string_max ELSE Len(text_matches))

(***************************************************************************)
(* json.loads on the texts the model's buffers can hold.  A text that      *)
(* starts with json_pattern and is built from the chunks below is valid    *)
(* JSON exactly when it is one of these documents; the value keeps what    *)
(* get_qupath_info reads: whether "server" is there and what it is.        *)
(***************************************************************************)
ColonOne == <<58, 49>>                                         \* :1
srv_int  == <<44, 34, 115, 101, 114, 118, 101, 114, 34, 58, 49>>   \* ,"server":1
srv_dict == <<44, 34, 115, 101, 114, 118, 101, 114, 34, 58, 123, 125>>   \* ,"server":{}
srv_meta == <<44, 34, 115, 101, 114, 118, 101, 114, 34, 58, 123, 34, 109, 101, 116, 97, 100, 97, 116, 97, 34, 58, 49, 125>>  \* ,"server":{"metadata":1}
CloseBrace == <<125>>

JsonDocument(body) == json_pattern \o ColonOne \o body \o CloseBrace

json_loads(text) ==
    IF text = JsonDocument(<<>>) THEN [ok |-> TRUE, value |-> [server |-> "absent"]]
    ELSE IF text = JsonDocument(srv_int) THEN [ok |-> TRUE, value |-> [server |-> "int"]]
    ELSE IF text = JsonDocument(srv_dict) THEN [ok |-> TRUE, value |-> [server |-> "dict"]]
    ELSE IF text = JsonDocument(srv_meta) THEN [ok |-> TRUE, value |-> [server |-> "dict_metadata_int"]]
    ELSE [ok |-> FALSE, value |-> [server |-> "absent"]]       \* json.JSONDecodeError

(***************************************************************************)
(* parse_qpdata, step by step.                                             *)
(***************************************************************************)
\* 1. version header
version_end(d) == Find(d, version_sentinel, version_offset)
extract_version(d) ==
    IF StartsWith(d, version_prefix) /\ version_end(d) > 0
    THEN Some(decode_utf8_ignore(Slice(d, version_offset, version_end(d))))
    ELSE None

\* 2. JSON block
json_start(d) == Find(d, json_pattern, 0)
\* whether the branch that assigns json_end runs
json_found(d) == json_start(d) > 0
\* json_end as bound by data.find(b'}sr ', json_start)
json_end_find(d) == Find(d, json_end_marker, json_start(d))
\* json_end after "json_end += 1" (unchanged, -1, when the marker is absent)
json_end(d) == IF json_end_find(d) > 0 THEN json_end_find(d) + 1 ELSE json_end_find(d)
json_str(d) == decode_utf8_ignore(Slice(d, json_start(d), json_end(d)))
json_extracted(d) == json_found(d) /\ json_end_find(d) > 0

\* 4. javaobj.load
\* (a slip that would start the decoder on the marker itself)
java_start_on_marker(d) == json_end(d)
java_start(d) == json_end(d) + java_skip
\* "if json_end and json_end > 0" reads a local that is bound only when
\* the json_start branch ran
json_end_unbound(d) == ~json_found(d)
java_attempted(d) == json_found(d) /\ json_end(d) # 0 /\ json_end(d) > 0

\* (a handler that would let the failed load out of parse_qpdata)
java_load_reraised == TRUE
\* what the except clause around javaobj.load does with a failed load:
\* "pass", the exception goes no further
java_load_propagates == FALSE

\* The outcome of one call.  load is what javaobj.load does on the stream
\* at java_start: "object" (it returns the decoded graph) or "raise".
parse_qpdata(exists, d, load) ==
    LET loaded == IF json_extracted(d) THEN json_loads(json_str(d))
                  ELSE [ok |-> FALSE, value |-> [server |-> "absent"]]
        loc == [json_str   |-> IF json_extracted(d) THEN Some(json_str(d)) ELSE None,
                java_start |-> IF ~json_end_unbound(d) /\ java_attempted(d)
                               THEN Some(java_start(d)) ELSE None,
                load       |-> IF ~json_end_unbound(d) /\ java_attempted(d)
                               THEN load ELSE "not_called"]
        noloc == [json_str |-> None, java_start |-> None, load |-> "not_called"]
    IN  IF ~exists
        THEN [exc |-> "FileNotFoundError", result |-> None, locals |-> noloc]
        ELSE IF json_end_unbound(d)
        THEN [exc |-> "UnboundLocalError", result |-> None, locals |-> loc]
        ELSE IF java_attempted(d) /\ load = "raise" /\ java_load_propagates
        THEN [exc |-> "JavaObjError", result |-> None, locals |-> loc]
        ELSE [exc |-> "none",
              result |-> Some(
                [version      |-> extract_version(d),
                 metadata     |-> IF loaded.ok THEN Some(loaded.value) ELSE None,
                 metadata_raw |-> IF json_extracted(d) /\ ~loaded.ok
                                  THEN Some(Slice(json_str(d), 0, metadata_raw_len)) ELSE None,
                 hierarchy    |-> IF java_attempted(d) /\ load = "object"
                                  THEN Some("pobj") ELSE None,
                 raw_strings  |-> raw_strings(d)]),
              locals |-> loc]

(***************************************************************************)
(* File buffers: every concatenation of at most MaxChunks chunks.          *)
(***************************************************************************)
Chunks == {version_prefix, json_pattern, json_end_marker, <<125, 115, 114>>,
           version_sentinel, ColonOne, <<255>>}

RECURSIVE Concat(_)
Concat(cs) == IF cs = <<>> THEN <<>> ELSE Head(cs) \o Concat(Tail(cs))

Buffers == {Concat(cs) : cs \in UNION {[1..n -> Chunks] : n \in 0..MaxChunks}}

(***************************************************************************)
(* Idle values of the variables a specification does not use.              *)
(***************************************************************************)
ParseIdle ==
    /\ file_exists = FALSE /\ data = <<>> /\ ppc = "idle"
    /\ result = None /\ exc = "none"
    /\ locals = [json_str |-> None, java_start |-> None, load |-> "not_called"]
BatchIdle ==
    /\ verbose = FALSE /\ classes = "none" /\ images = <<>> /\ idx = 1
    /\ image_infos = <<>> /\ bpc = "idle" /\ call_log = <<>>
WalkIdle ==
    /\ heap = <<>> /\ qpdata_obj = None /\ wpc = "idle"
    /\ todo = <<>> /\ annotations = <<>> /\ caught_exc = "none"

(***************************************************************************)
(* SpecParse: parse_qpdata called once on one file.                        *)
(***************************************************************************)
InitParse ==
    /\ file_exists \in BOOLEAN
    /\ data \in (IF file_exists THEN Buffers ELSE {<<>>})
    /\ ppc = "call"
    /\ result = None /\ exc = "none"
    /\ locals = [json_str |-> None, java_start |-> None, load |-> "not_called"]
    /\ BatchIdle /\ WalkIdle

Call_parse_qpdata ==
    /\ ppc = "call"
    /\ \E load \in {"object", "raise"} :
         LET r == parse_qpdata(file_exists, data, load)
         IN  /\ ppc' = IF r.exc = "none" THEN "returned" ELSE "raised"
             /\ result' = r.result
             /\ exc' = r.exc
             /\ locals' = r.locals
    /\ UNCHANGED <<file_exists, data, batch_vars, walk_vars>>

NextParse == Call_parse_qpdata
SpecParse == InitParse /\ [][NextParse]_vars

(***************************************************************************)
(* get_qupath_info.  A manifest entry says whether it has "serverBuilder"  *)
(* (with or without "uri") and "entryID", and what the project directory   *)
(* holds for it: whether data/<entryID> exists, its summary.json (absent,  *)
(* valid JSON, or not JSON) and its data.qpdata.                           *)
(***************************************************************************)
stream_tail == <<115, 114, 32>>       \* the "sr " that follows the JSON's brace
FileNames == {"missing", "nojson", "plain", "server_int", "server_meta", "badjson"}
FileContent(f) ==
    CASE f = "missing"     -> <<>>
      [] f = "nojson"      -> ColonOne
      [] f = "plain"       -> version_prefix \o ColonOne \o version_sentinel
                                \o JsonDocument(<<>>) \o stream_tail
      [] f = "server_int"  -> version_sentinel \o JsonDocument(srv_int) \o stream_tail
      [] f = "server_meta" -> version_sentinel \o JsonDocument(srv_meta) \o stream_tail
      [] f = "badjson"     -> version_sentinel \o json_pattern \o json_end_marker

ImageShapes ==
    {im \in [serverBuilder : {"absent", "uri", "nouri"}, entryID : BOOLEAN, dir : BOOLEAN,
             summary : {"absent", "ok", "bad"}, file : FileNames] :
        /\ ~im.entryID => ~im.dir
        /\ ~im.dir => (im.summary = "absent" /\ im.file = "missing")
        /\ im.summary = "bad" => im.file = "missing"}
Manifests == UNION {[1..n -> ImageShapes] : n \in 0..MaxImages}

NoInfo == [uri |-> None, entryID |-> None, summary |-> None, data_path |-> None,
           metadata |-> None, parsed_data |-> None, classes |-> None, error |-> None]

\* the parse of each data.qpdata, for both outcomes of javaobj.load
ParsedFiles ==
    [f \in FileNames |-> [load \in {"object", "raise"} |->
        parse_qpdata(f # "missing", FileContent(f), load)]]

\* lines 180-199: what showing the metadata raises, if anything
display_raises(md, i, vb) ==
    IF ~(i = 1 \/ vb) THEN "none"
    ELSE IF md.server = "int" THEN "TypeError"                 \* 'metadata' in 1
    ELSE IF md.server = "dict_metadata_int" /\ vb THEN "AttributeError"   \* (1).get
    ELSE "none"

\* (a slip that would store the metadata before looking into it)
try_block_metadata_first(info, r, i, vb, cls) ==
    IF r.exc # "none" THEN [raised |-> r.exc, info |-> info]
    ELSE LET res == r.result[1]
             shown == (i = 1 \/ vb) /\ res.metadata # None
             with_md == IF shown THEN [info EXCEPT !.metadata = res.metadata] ELSE info
             raised == IF shown THEN display_raises(res.metadata[1], i, vb) ELSE "none"
         IN  IF raised # "none" THEN [raised |-> raised, info |-> with_md]
             ELSE [raised |-> "none",
                   info |-> [with_md EXCEPT
                       !.parsed_data = Some([has_metadata  |-> res.metadata # None,
                                             has_hierarchy |-> res.hierarchy # None,
                                             version       |-> res.version]),
                       !.classes = Some(cls)]]

\* lines 176-207: the try block, given the outcome r of parse_qpdata
try_block(info, r, i, vb, cls) ==
    IF r.exc # "none" THEN [raised |-> r.exc, info |-> info]
    ELSE LET res == r.result[1]
             shown == (i = 1 \/ vb) /\ res.metadata # None
             raised == IF shown THEN display_raises(res.metadata[1], i, vb) ELSE "none"
             with_md == IF shown THEN [info EXCEPT !.metadata = res.metadata] ELSE info
         IN  IF raised # "none" THEN [raised |-> raised, info |-> info]
             ELSE [raised |-> "none",
                   info |-> [with_md EXCEPT
                       !.parsed_data = Some([has_metadata  |-> res.metadata # None,
                                             has_hierarchy |-> res.hierarchy # None,
                                             version       |-> res.version]),
                       !.classes = Some(cls)]]

\* (a handler that would catch the missing file alone)
caught_missing_file_only(e) == e = "FileNotFoundError"
\* line 209: "except Exception" catches every exception the try block raises
caught(e) == TRUE

\* lines 147-173: the entry before data.qpdata is parsed
info_before_parse(im, i) ==
    LET a == IF im.serverBuilder = "absent" THEN NoInfo
             ELSE [NoInfo EXCEPT !.uri = Some(IF im.serverBuilder = "uri" THEN "uri" ELSE "Unknown")]
        b == IF im.entryID THEN [a EXCEPT !.entryID = Some(i)] ELSE a
        c == IF im.dir /\ im.summary = "ok" THEN [b EXCEPT !.summary = Some("summary")] ELSE b
    IN  IF im.dir THEN [c EXCEPT !.data_path = Some(i)] ELSE c

InitBatch ==
    /\ verbose \in BOOLEAN
    /\ classes \in {"none", "legend"}
    /\ images \in Manifests
    /\ idx = 1
    /\ image_infos = <<>>
    /\ bpc = "loop"
    /\ call_log = <<>>
    /\ ParseIdle /\ WalkIdle

\* one iteration of "for idx, image in enumerate(images, 1)" on an image
\* that has no data directory (or no entryID)
ProcessImageWithoutData ==
    /\ bpc = "loop" /\ idx <= Len(images)
    /\ ~images[idx].dir
    /\ image_infos' = Append(image_infos, info_before_parse(images[idx], idx))
    /\ call_log' = Append(call_log, [parse_exc |-> "not_called", load |-> "not_called",
                                      try_exc |-> "none"])
    /\ idx' = idx + 1
    /\ UNCHANGED <<verbose, classes, images, bpc, parse_vars, walk_vars>>

\* one iteration on an image whose summary.json is not JSON: json.load
\* raises outside the try block and get_qupath_info ends with it
ProcessImageBadSummary ==
    /\ bpc = "loop" /\ idx <= Len(images)
    /\ images[idx].dir /\ images[idx].summary = "bad"
    /\ bpc' = "crashed"
    /\ UNCHANGED <<verbose, classes, images, idx, image_infos, call_log, parse_vars, walk_vars>>

\* one iteration on an image with a data directory
ProcessImage ==
    /\ bpc = "loop" /\ idx <= Len(images)
    /\ images[idx].dir /\ images[idx].summary # "bad"
    /\ \E load \in {"object", "raise"} :
         LET r == ParsedFiles[images[idx].file][load]
             t == try_block(info_before_parse(images[idx], idx), r, idx, verbose, classes)
         IN  /\ call_log' = Append(call_log, [parse_exc |-> r.exc, load |-> r.locals.load,
                                              try_exc |-> t.raised])
             /\ IF t.raised = "none"
                THEN /\ image_infos' = Append(image_infos, t.info)
                     /\ idx' = idx + 1 /\ bpc' = bpc
                ELSE IF caught(t.raised)
                THEN /\ image_infos' = Append(image_infos, [t.info EXCEPT !.error = Some(t.raised)])
                     /\ idx' = idx + 1 /\ bpc' = bpc
                ELSE /\ bpc' = "crashed"
                     /\ UNCHANGED <<image_infos, idx>>
    /\ UNCHANGED <<verbose, classes, images, parse_vars, walk_vars>>

\* "return image_infos"
ReturnInfos ==
    /\ bpc = "loop" /\ idx > Len(images)
    /\ bpc' = "returned"
    /\ UNCHANGED <<verbose, classes, images, idx, image_infos, call_log, parse_vars, walk_vars>>

NextBatch == ProcessImageWithoutData \/ ProcessImageBadSummary \/ ProcessImage \/ ReturnInfos
SpecBatch == InitBatch /\ [][NextBatch]_vars

(***************************************************************************)
(* extract_annotations and extract_annotation_info.  A decoded graph is a  *)
(* heap of objects 1..MaxNodes; an object's __dict__ is a sequence of      *)
(* [key, value] in insertion order.  A value is None, an int, a str, a     *)
(* reference to an object, a list of values, or a dict (a sequence of      *)
(* [key, value]).  Only objects have a __dict__ and attributes.            *)
(***************************************************************************)
Nodes == 1..MaxNodes
\* the records a walk may hold before its guard stops it; no walk of the
\* graphs below comes near it
MaxRecords == 2 * MaxAttrs * MaxNodes + 2

NoneV   == [t |-> "none", n |-> 0, items |-> <<>>]
IntV    == [t |-> "int",  n |-> 0, items |-> <<>>]
StrV(k) == [t |-> "str",  n |-> 0, items |-> k]
Ref(n)  == [t |-> "ref",  n |-> n, items |-> <<>>]
ListV(xs) == [t |-> "list", n |-> 0, items |-> xs]
DictV(kvs) == [t |-> "dict", n |-> 0, items |-> kvs]

k_annotations == <<97, 110, 110, 111, 116, 97, 116, 105, 111, 110, 115>>    \* "annotations"
k_PathObjects == <<80, 97, 116, 104, 79, 98, 106, 101, 99, 116, 115>>       \* "PathObjects"
k_map         == <<109, 97, 112>>                                           \* "map"
k_name        == <<110, 97, 109, 101>>                                      \* "name"
k_Annotation  == <<65, 110, 110, 111, 116, 97, 116, 105, 111, 110>>         \* "Annotation"
k_other       == <<111, 116, 104, 101, 114>>                                \* "other"
k_pathobject  == <<112, 97, 116, 104, 111, 98, 106, 101, 99, 116>>          \* 'pathobject'
k_annotation  == <<97, 110, 110, 111, 116, 97, 116, 105, 111, 110>>         \* 'annotation'
\* ['name', 'class', 'type', 'roi', 'geometry', 'measurement']
info_keywords == {k_name, <<99, 108, 97, 115, 115>>, <<116, 121, 112, 101>>, <<114, 111, 105>>,
                  <<103, 101, 111, 109, 101, 116, 114, 121>>,
                  <<109, 101, 97, 115, 117, 114, 101, 109, 101, 110, 116>>}

\* str.lower() on ASCII text, and "sub in text"
LowerChar(c) == IF c >= 65 /\ c <= 90 THEN c + 32 ELSE c
lower(k) == [i \in 1..Len(k) |-> LowerChar(k[i])]
Contains(sub, text) == Find(text, sub, 0) >= 0

\* hasattr(v, key) and getattr(v, key)
attr_index(h, v, key) ==
    IF v.t # "ref" THEN {} ELSE {i \in 1..Len(h[v.n]) : h[v.n][i].key = key}
has_attr(h, v, key) == attr_index(h, v, key) # {}
get_attr(h, v, key) == h[v.n][CHOOSE i \in attr_index(h, v, key) : TRUE].value

RECURSIVE Flatten(_)
Flatten(ss) == IF ss = <<>> THEN <<>> ELSE Head(ss) \o Flatten(Tail(ss))

\* lines 80-93: the objects picked by the first if / elif, and the exception
\* the iteration raises (a value that is no list and no dict is not iterable)
first_candidates(h, v) ==
    IF has_attr(h, v, k_annotations)
    THEN LET a == get_attr(h, v, k_annotations)
         IN  IF a.t = "list" THEN [items |-> a.items, raised |-> "none"]
             ELSE IF a.t = "dict"
             THEN [items |-> [i \in 1..Len(a.items) |-> StrV(a.items[i].key)], raised |-> "none"]
             ELSE [items |-> <<>>, raised |-> "TypeError"]
    ELSE IF v.t = "ref"
    THEN LET d == h[v.n]
             picked(i) == IF Contains(k_pathobject, lower(d[i].key))
                             \/ Contains(k_annotation, lower(d[i].key))
                          THEN IF d[i].value.t = "list" THEN d[i].value.items ELSE <<d[i].value>>
                          ELSE <<>>
         IN  [items |-> Flatten([i \in 1..Len(d) |-> picked(i)]), raised |-> "none"]
    ELSE [items |-> <<>>, raised |-> "none"]

\* lines 96-99: the values of qpdata_obj.map under a key naming an annotation
map_candidates(h, v) ==
    IF has_attr(h, v, k_map)
    THEN LET m == get_attr(h, v, k_map)
             picked(i) == IF Contains(k_annotation, lower(m.items[i].key))
                          THEN <<m.items[i].value>> ELSE <<>>
         IN  IF m.t = "dict"
             THEN [items |-> Flatten([i \in 1..Len(m.items) |-> picked(i)]), raised |-> "none"]
             ELSE [items |-> <<>>, raised |-> "AttributeError"]
    ELSE [items |-> <<>>, raised |-> "none"]

\* the try block as a whole: an exception in the first part skips the map
candidates(h, v) ==
    LET f == first_candidates(h, v)
        m == map_candidates(h, v)
    IN  IF f.raised # "none" THEN f
        ELSE [items |-> f.items \o m.items, raised |-> m.raised]

\* str(type(ann_obj)) and str(value)
type_of(v) ==
    CASE v.t = "none" -> "<class 'NoneType'>" [] v.t = "int" -> "<class 'int'>"
      [] v.t = "str" -> "<class 'str'>" [] v.t = "list" -> "<class 'list'>"
      [] v.t = "dict" -> "<class 'dict'>" [] v.t = "ref" -> "<class 'JavaInstance'>"
str_of(v) ==
    CASE v.t = "none" -> <<"None">> [] v.t = "int" -> <<"1">>
      [] v.t = "str" -> <<"str", v.items>> [] v.t = "list" -> <<"[", Len(v.items), "]">>
      [] v.t = "dict" -> <<"{", Len(v.items), "}">> [] v.t = "ref" -> <<"<object>", v.n>>

\* lines 107-122
extract_annotation_info(h, c) ==
    LET d == IF c.t = "ref" THEN h[c.n] ELSE <<>>
        known(i) == \E kw \in info_keywords : Contains(kw, lower(d[i].key))
        kept == SelectSeq([i \in 1..Len(d) |-> i], known)
    IN  [type |-> type_of(c),
         attributes |-> [j \in 1..Len(kept) |-> [key |-> d[kept[j]].key,
                                                 value |-> str_of(d[kept[j]].value)]]]

\* (a slip that would keep only the records that found an attribute)
append_if_attributes(anns, h, c) ==
    IF extract_annotation_info(h, c).attributes = <<>> THEN anns
    ELSE Append(anns, extract_annotation_info(h, c))
\* annotations.append(extract_annotation_info(...))
append_record(anns, h, c) == Append(anns, extract_annotation_info(h, c))

\* (a walk that would go on into the objects a candidate refers to)
descend_into_candidate(h, c, rest) ==
    IF c.t = "ref" THEN rest \o [i \in 1..Len(h[c.n]) |-> h[c.n][i].value] ELSE rest
\* what is left to visit after a candidate: the for loops go on to the next
\* item, a candidate's own attributes are read but never walked
after_candidate(h, c, rest) == rest

\* line 101: "except Exception" catches what the walk raises
walker_catches(e) == TRUE

\* the graphs walked: the root object 1 with at most MaxAttrs attributes,
\* the other objects with at most one
RootValues ==
    {NoneV, IntV} \cup {Ref(n) : n \in Nodes}
      \cup {ListV([i \in Nodes |-> Ref(i)]),
            DictV(<<[key |-> k_Annotation, value |-> Ref(MaxNodes)],
                    [key |-> k_other, value |-> IntV]>>)}
RootKeys == {k_annotations, k_PathObjects, k_map, k_name}
Injective(ks) == \A i, j \in DOMAIN ks : ks[i] = ks[j] => i = j
RootDicts ==
    UNION {{[i \in 1..n |-> [key |-> ks[i], value |-> vs[i]]] :
               ks \in {x \in [1..n -> RootKeys] : Injective(x)}, vs \in [1..n -> RootValues]}
           : n \in 0..MaxAttrs}
ChildDicts(n) ==
    {<<>>, <<[key |-> k_name, value |-> IntV]>>, <<[key |-> k_name, value |-> Ref(1)]>>,
     <<[key |-> k_map, value |-> Ref(n)]>>}
ChildHeaps ==
    {c \in [Nodes \ {1} -> UNION {ChildDicts(n) : n \in Nodes}] :
        \A n \in Nodes \ {1} : c[n] \in ChildDicts(n)}
Heaps == {[n \in Nodes |-> IF n = 1 THEN r ELSE c[n]] : r \in RootDicts, c \in ChildHeaps}
EmptyHeap == [n \in Nodes |-> <<>>]

InitWalk ==
    /\ qpdata_obj \in {NoneV, IntV, Ref(1)}
    /\ heap \in (IF qpdata_obj = Ref(1) THEN Heaps ELSE {EmptyHeap})
    /\ wpc = "start"
    /\ todo = <<>>
    /\ annotations = <<>>
    /\ caught_exc = "none"
    /\ ParseIdle /\ BatchIdle

\* "if qpdata_obj is None: return annotations"
CanWalkNone == wpc = "start" /\ qpdata_obj = NoneV
WalkNone ==
    /\ CanWalkNone
    /\ wpc' = "done"
    /\ UNCHANGED <<heap, qpdata_obj, todo, annotations, caught_exc, parse_vars, batch_vars>>

\* entering the try block: the objects the loops will reach, and the
\* exception that will end the block
CanWalkStart == wpc = "start" /\ qpdata_obj # NoneV
WalkStart ==
    /\ CanWalkStart
    /\ todo' = candidates(heap, qpdata_obj).items
    /\ caught_exc' = candidates(heap, qpdata_obj).raised
    /\ wpc' = "loop"
    /\ UNCHANGED <<heap, qpdata_obj, annotations, parse_vars, batch_vars>>

\* one pass of a for loop: one candidate, one record
CanWalkCandidate == wpc = "loop" /\ todo # <<>> /\ Len(annotations) < MaxRecords
WalkCandidate ==
    /\ CanWalkCandidate
    /\ annotations' = append_record(annotations, heap, Head(todo))
    /\ todo' = after_candidate(heap, Head(todo), Tail(todo))
    /\ UNCHANGED <<heap, qpdata_obj, wpc, caught_exc, parse_vars, batch_vars>>

\* the end of the try block and "return annotations"
CanWalkReturn == wpc = "loop" /\ todo = <<>>
WalkReturn ==
    /\ CanWalkReturn
    /\ wpc' = IF caught_exc = "none" \/ walker_catches(caught_exc) THEN "done" ELSE "raised"
    /\ UNCHANGED <<heap, qpdata_obj, todo, annotations, caught_exc, parse_vars, batch_vars>>

NextWalk == WalkNone \/ WalkStart \/ WalkCandidate \/ WalkReturn
\* the guards above are all that can keep a step from being taken
CanWalk == CanWalkNone \/ CanWalkStart \/ CanWalkCandidate \/ CanWalkReturn
SpecWalk == InitWalk /\ [][NextWalk]_vars

(***************************************************************************)
(* Claims about parse_qpdata (SpecParse).                                  *)
(***************************************************************************)
Called == ppc \in {"returned", "raised"}
\* offset of the first closing brace at or after the JSON start that is
\* immediately followed by the two bytes "sr", or -1
FirstBraceSr(d) == Find(d, <<125, 115, 114>>, Find(d, json_pattern, 0))
\* the bytes of d from offset p to its end
StreamAt(d, p) == Slice(d, p, Len(d))

\* C1: for a file with no JSON block (the leading key occurs nowhere)
\* parse_qpdata returns normally with metadata None, and the decode of the
\* object stream is still attempted.
C1_NoJsonReturnsAndDecodes ==
    (Called /\ file_exists /\ Find(data, json_pattern, 0) = -1) =>
        /\ ppc = "returned"
        /\ result[1].metadata = None
        /\ locals.load # "not_called"

\* C4: for a buffer that does not begin with the version prefix the version
\* is None, and the JSON text found, whether the decoder is called and the
\* stream it is called on are those of the same content behind a header.
C4_HeaderAbsentChangesNothing ==
    (Called /\ file_exists /\ ~StartsWith(data, version_prefix)) =>
        LET w == parse_qpdata(TRUE, version_prefix \o data, "object")
        IN  /\ ppc = "returned" => result[1].version = None
            /\ (exc = "none") = (w.exc = "none")
            /\ locals.json_str = w.locals.json_str
            /\ (locals.java_start = None) = (w.locals.java_start = None)
            /\ locals.java_start # None =>
                   StreamAt(data, locals.java_start[1])
                     = StreamAt(version_prefix \o data, w.locals.java_start[1])

\* C5: when the leading key occurs (at any offset, 0 included) and a closing
\* brace followed by the two-byte marker comes after it, the JSON text runs
\* from the first occurrence of the key through the first such brace.
C5_JsonTextFromKeyToBrace ==
    (Called /\ file_exists /\ Find(data, json_pattern, 0) >= 0 /\ FirstBraceSr(data) >= 0) =>
        locals.json_str =
            Some(decode_utf8_ignore(Slice(data, Find(data, json_pattern, 0), FirstBraceSr(data) + 1)))

\* C8 as stated: the position handed to the decoder is the byte right after
\* the JSON's closing brace, where the two-byte marker begins.
C8_DecoderStartsOnMarker ==
    locals.java_start # None =>
        locals.java_start[1] = Find(data, json_end_marker, Find(data, json_pattern, 0)) + 1

\* C8 amended: whenever the end of the JSON block is found the decoder is
\* called, at the offset three past the closing brace: the two marker bytes
\* "sr" after the brace are skipped and decoding starts on the byte after
\* them.
C8_DecoderStartsAfterMarker ==
    /\ (locals.json_str # None) => (locals.java_start # None)
    /\ locals.java_start # None =>
         LET p == locals.java_start[1]
             brace == Find(data, json_end_marker, Find(data, json_pattern, 0))
         IN  /\ p = brace + 3
             /\ Slice(data, brace, p) = <<125, 115, 114>>
             /\ p < Len(data)
C8_Witness ==
    /\ ppc = "returned" /\ locals.java_start # None /\ locals.load = "object"
    /\ result[1].metadata # None

\* C9: for a buffer that begins with the prefix, the version is the bytes
\* between the end of the prefix and the first sentinel byte after the
\* prefix, and None when no sentinel follows the prefix.
C9_VersionBetweenPrefixAndSentinel ==
    (ppc = "returned" /\ StartsWith(data, version_prefix)) =>
        LET e == Find(data, version_sentinel, Len(version_prefix))
        IN  result[1].version =
              IF e >= 0 THEN Some(decode_utf8_ignore(Slice(data, Len(version_prefix), e)))
              ELSE None

(***************************************************************************)
(* Claims about get_qupath_info (SpecBatch).                               *)
(***************************************************************************)
Processed == 1..Len(image_infos)
ParseRaised(i) == call_log[i].parse_exc \notin {"none", "not_called"}

\* C2: an image whose parse_qpdata call raises (or whose metadata handling
\* raises) does not end the batch: its entry carries the error string, the loop goes on (get_qupath_info ends
\* early only on a summary.json that is not JSON, never on a parse), and the
\* returned list has one entry per manifest image, in manifest order.
C2_ParseErrorKeepsBatchGoing ==
    /\ \A i \in Processed :
         /\ ParseRaised(i) => image_infos[i].error = Some(call_log[i].parse_exc)
         /\ call_log[i].try_exc # "none" => image_infos[i].error = Some(call_log[i].try_exc)
    /\ bpc = "crashed" => (images[idx].dir /\ images[idx].summary = "bad")
    /\ bpc = "returned" =>
         /\ Len(image_infos) = Len(images)
         /\ \A i \in Processed :
              image_infos[i].entryID = (IF images[i].entryID THEN Some(i) ELSE None)
C2_Witness ==
    /\ bpc = "returned" /\ Len(image_infos) = 2
    /\ ParseRaised(1) /\ image_infos[1].error = Some("UnboundLocalError")
    /\ image_infos[2].parsed_data # None

\* C3 as stated: a failed decode of the object stream reaches the caller as
\* an error, so the image's entry carries an error.
C3_DecodeFailureIsAnError ==
    \A i \in Processed : call_log[i].load = "raise" => image_infos[i].error # None

\* C3 amended: a failed decode is swallowed inside parse_qpdata, which
\* returns normally with hierarchy None; the entry carries no error for it,
\* only has_hierarchy = false (an error on such an entry comes from showing
\* the metadata).
C3_DecodeFailureIsSwallowed ==
    \A i \in Processed : call_log[i].load = "raise" =>
        /\ call_log[i].parse_exc = "none"
        /\ image_infos[i].error \in {None, Some("TypeError"), Some("AttributeError")}
        /\ image_infos[i].error = None =>
             /\ image_infos[i].parsed_data # None
             /\ ~image_infos[i].parsed_data[1].has_hierarchy
C3_Witness ==
    /\ bpc = "returned" /\ Len(image_infos) >= 1
    /\ call_log[1].load = "raise" /\ image_infos[1].error = None
    /\ image_infos[1].parsed_data[1].has_metadata
    /\ ~image_infos[1].parsed_data[1].has_hierarchy

\* C10: no entry carries both "error" and "parsed_data", an entry with
\* "error" carries no "metadata", and an entry whose data directory exists
\* carries exactly one of "error" and "parsed_data".
C10_ErrorXorParsedData ==
    \A i \in Processed :
        /\ ~(image_infos[i].error # None /\ image_infos[i].parsed_data # None)
        /\ image_infos[i].error # None => image_infos[i].metadata = None
        /\ images[i].dir => (image_infos[i].error # None) # (image_infos[i].parsed_data # None)
C10_Witness ==
    /\ bpc = "returned" /\ Len(image_infos) = 2
    /\ image_infos[1].error = Some("TypeError")
    /\ image_infos[2].parsed_data # None /\ image_infos[2].error = None

(***************************************************************************)
(* Claims about extract_annotations (SpecWalk).                             *)
(***************************************************************************)
\* the objects a value refers to, and the objects on a cycle of references
RefsOfValue(v) ==
    IF v.t = "ref" THEN {v.n}
    ELSE IF v.t = "list" THEN {v.items[i].n : i \in {j \in 1..Len(v.items) : v.items[j].t = "ref"}}
    ELSE IF v.t = "dict"
    THEN {v.items[i].value.n : i \in {j \in 1..Len(v.items) : v.items[j].value.t = "ref"}}
    ELSE {}
RefsOfNode(h, n) == UNION {RefsOfValue(h[n][i].value) : i \in 1..Len(h[n])}
RECURSIVE ReachableIn(_, _, _)
ReachableIn(h, S, k) ==
    IF k = 0 THEN S ELSE ReachableIn(h, S \cup UNION {RefsOfNode(h, n) : n \in S}, k - 1)
OnCycle(h, n) == n \in ReachableIn(h, RefsOfNode(h, n), MaxNodes)
Selected == candidates(heap, qpdata_obj).items
Unrecognizable(c) ==
    c.t # "ref" \/ \A i \in 1..Len(heap[c.n]) : \A kw \in info_keywords :
                       ~Contains(kw, lower(heap[c.n][i].key))

\* C6: extract_annotations never raises, and every object it selects yields
\* one record, in order; an object with no recognizable attribute, or with
\* no attributes at all, yields a record with empty attributes.
C6_NoRaiseNoDroppedCandidate ==
    /\ wpc # "raised"
    /\ (wpc = "done" /\ qpdata_obj # NoneV) =>
         /\ Len(annotations) = Len(Selected)
         /\ \A i \in 1..Len(Selected) :
              /\ annotations[i].type = type_of(Selected[i])
              /\ Unrecognizable(Selected[i]) => annotations[i].attributes = <<>>
C6_Witness ==
    /\ wpc = "done" /\ caught_exc = "AttributeError"
    /\ \E i, j \in 1..Len(annotations) :
         /\ Selected[i].t = "ref" /\ heap[Selected[i].n] # <<>>
         /\ annotations[i].attributes = <<>>
         /\ Selected[j].t = "ref" /\ heap[Selected[j].n] = <<>>
         /\ annotations[j].attributes = <<>>

\* C7: on a graph with a cycle (an object that refers to itself, or two
\* objects that refer to each other) the walk ends: until it has returned
\* it can always take a step (CanWalk is ENABLED NextWalk), and every step of the loop moves one object
\* from what is left to visit to the records, so that it visits exactly the
\* objects it selected, once each, and returns one record for each.
C7_WalkOfCyclicGraphEnds ==
    \/ /\ wpc = "done" \/ CanWalk
       /\ wpc \in {"loop", "done"} => Len(annotations) + Len(todo) = Len(Selected)
       /\ wpc = "done" => todo = <<>>
    \/ ~(\E n \in Nodes : OnCycle(heap, n))
C7_Witness ==
    /\ wpc = "done" /\ OnCycle(heap, 1) /\ OnCycle(heap, 2)
    /\ 2 \in RefsOfNode(heap, 1) /\ 1 \in RefsOfNode(heap, 2)
    /\ \E i \in 1..Len(annotations) :
         /\ Selected[i] = Ref(2)
         /\ annotations[i].attributes # <<>>

====
